---- MODULE Spec2Model ----
(***************************************************************************)
(* The two pages of the LMS frontend and the fetch client under them.      *)
(*                                                                         *)
(* One page instance is mounted at a time (the router of App maps          *)
(* /teacher and /student/:assignmentId to one element each).  `page` says  *)
(* which: the teacher upload page without authentication, the teacher      *)
(* upload page with the Clerk hooks, or the student page.  err and result  *)
(* are the useState cells of that name of whichever page is mounted.       *)
(*                                                                         *)
(* An await is a point where the handler gives up control: every           *)
(* invocation that is past its synchronous prefix is a record in calls     *)
(* (teacher), fetches or posts (student), and the step that resumes it is  *)
(* an action of its own.                                                   *)
(***************************************************************************)
EXTENDS Integers, Sequences, FiniteSets, TLC

\* ---------------------------------------------------------------- bounds
\* onSubmit invocations of one teacher page instance
MaxSubmits == 2
\* events delivered to one student page instance: answer edits, clicks on
\* Submit and changes of the :assignmentId route parameter
MaxEvents == 4

\* ---------------------------------------------------------------- values
Null == "<null>"
NoFile == "<no file>"
NoUser == "<no user>"
NoToken == "<no token>"
Absent == "<absent>"

Files == {"hw.docx", "quiz.txt"}
Users == {"user_1", "user_2"}
Tokens == {"tok_1"}

\* JSON bodies the backend answers an upload with
UploadBodies == {[assignmentId |-> "abc", questionsCount |-> 3]}

\* what fetch itself rejects with when no response arrives (a TypeError)
NetworkError == [isError |-> TRUE, message |-> "Failed to fetch"]
\* what getToken rejects with when the session cannot be refreshed
TokenError == [isError |-> TRUE, message |-> "Token refresh failed"]

MkError(msg) == [isError |-> TRUE, message |-> msg]

\* ------------------------------------------------------------ Clerk hooks
\* useAuth() and useUser() as one record; the user is known only once
\* loaded, and a loaded pair agrees on who is signed in.
ClerkStates ==
    {c \in [isAuthLoaded : BOOLEAN, isUserLoaded : BOOLEAN,
            isSignedIn : BOOLEAN, user : Users \cup {NoUser}] :
        /\ c.isSignedIn => c.isAuthLoaded
        /\ (c.user # NoUser) => c.isUserLoaded
        /\ (c.isAuthLoaded /\ c.isUserLoaded) => (c.isSignedIn <=> c.user # NoUser)}

ClerkUnloaded ==
    [isAuthLoaded |-> FALSE, isUserLoaded |-> FALSE, isSignedIn |-> FALSE, user |-> NoUser]

VARIABLES
    page,          \* "teacherPlain" | "teacherClerk" | "student"
    \* -- teacher page
    file,          \* useState<File | null>
    result,        \* useState result (either page): <<>> or <<body>>
    loading,       \* useState(false)
    err,           \* useState<string | null> (either page)
    clerk,         \* what useAuth()/useUser() return at the current render
    calls,         \* onSubmit invocations suspended at an await
    sent,          \* POST /upload-assignment/ requests handed to fetch, in order
    submits,       \* number of onSubmit invocations so far
    lastOutcome,   \* how the most recent upload attempt stands
    \* -- student page
    assignmentId,  \* useParams().assignmentId
    assignment,    \* useState<any>(null): <<>> or <<data>>
    responses,     \* useState<Record<string, any>>({}) as rendered
    pendingUpd,    \* setResponses updaters queued and not yet rendered
    fetches,       \* getAssignment calls not settled
    posts,         \* submitResponses calls not settled
    postLog,       \* the POST /submissions/ requests handed to fetch, in order
    typed,         \* for each question, the last value the student entered
    atClick,       \* for each click on Submit, the route parameter and typed then
    notFoundId,    \* the id whose fetch was answered {error}, until the route changes
    events         \* number of edits, clicks and route changes so far

teacherVars == <<file, loading, clerk, calls, sent, submits, lastOutcome>>
studentVars == <<assignmentId, assignment, responses, pendingUpd, fetches, posts,
                 postLog, typed, atClick, notFoundId, events>>
vars == <<page, result, err, file, loading, clerk, calls, sent, submits, lastOutcome,
          assignmentId, assignment, responses, pendingUpd, fetches, posts,
          postLog, typed, atClick, notFoundId, events>>

IsTeacher == page \in {"teacherPlain", "teacherClerk"}

\* ============================================================ API client
\* services/api.ts uploadAssignment(file): the request it hands to fetch
uploadAssignmentPlain(f) ==
    [file |-> f, owner_id |-> Absent, xClerkSessionToken |-> Absent,
     xClerkUserId |-> Absent]

\* authenticated client uploadAssignment(payload, auth): the request it hands to fetch
uploadAssignment(payload, auth) ==
    [file |-> payload.file, owner_id |-> payload.owner_id,
     xClerkSessionToken |-> auth.clerkToken, xClerkUserId |-> payload.owner_id]

\* if (!res.ok) throw new Error("Upload failed")
UploadNotOk == MkError("Upload failed")
\* if (!res.ok) throw new Error("Fetch assignment failed")
FetchNotOk == MkError("Fetch assignment failed")
\* if (!res.ok) throw new Error("Submit failed")
SubmitNotOk == MkError("Submit failed")

\* ======================================================= teacher upload page
MsgAuthLoading == "Authentication is still loading. Please try again."
MsgSignedOut == "You must be signed in to upload assignments."
MsgNoToken == "Unable to retrieve authentication token."

\* the handler without its file check
NoFileIgnored(f) == FALSE

\* if (!file) return;
NoFileSelected(f) == f = NoFile

\* if (!isAuthLoaded || !isUserLoaded)
AuthStillLoading(c) == ~c.isAuthLoaded \/ ~c.isUserLoaded

\* if (!isSignedIn || !currentUser)
NotSignedIn(c) == ~c.isSignedIn \/ c.user = NoUser

\* the handler without its token check
TokenNeverMissing(t) == FALSE

\* if (!clerkToken)
TokenMissing(t) == t = NoToken

\* the disabled attribute of the submit button
ButtonDisabled ==
    IF page = "teacherClerk"
    THEN file = NoFile \/ loading \/ ~clerk.isAuthLoaded \/ ~clerk.isUserLoaded
         \/ ~clerk.isSignedIn
    ELSE file = NoFile \/ loading

\* the message the catch block hands to setErr
UploadErrorMessage(e) ==
    IF page = "teacherClerk"
    THEN (IF e.isError THEN e.message ELSE "Upload failed")
    ELSE (IF e.message # "" THEN e.message ELSE "Upload failed")

\* {err && <p>...}: the error paragraph is rendered
ErrShown == err # Null /\ err # ""
\* {result && <div>...}: the result panel is rendered
ResultShown == result # <<>>

\* the catch block without the finally block after it
CatchUploadNoFinally(c, e, outcome) ==
    /\ err' = UploadErrorMessage(e)
    /\ calls' = calls \ {c}
    /\ lastOutcome' = outcome
    /\ UNCHANGED <<result, sent, loading>>

\* catch (error) { setErr(message) } finally { setLoading(false) } of invocation c
CatchUpload(c, e, outcome) ==
    /\ err' = UploadErrorMessage(e)
    /\ loading' = FALSE
    /\ calls' = calls \ {c}
    /\ lastOutcome' = outcome
    /\ UNCHANGED <<result, sent>>

\* onSubmit of the teacher page, up to its first await
onSubmit ==
    /\ IsTeacher
    /\ submits < MaxSubmits
    /\ submits' = submits + 1
    /\ IF NoFileSelected(file)
       THEN /\ err' = Null
            /\ lastOutcome' = "nofile"
            /\ UNCHANGED <<loading, calls, sent>>
       ELSE IF page = "teacherClerk" /\ AuthStillLoading(clerk)
       THEN /\ err' = MsgAuthLoading
            /\ lastOutcome' = "authLoading"
            /\ UNCHANGED <<loading, calls, sent>>
       ELSE IF page = "teacherClerk" /\ NotSignedIn(clerk)
       THEN /\ err' = MsgSignedOut
            /\ lastOutcome' = "signedOut"
            /\ UNCHANGED <<loading, calls, sent>>
       ELSE /\ err' = Null
            /\ loading' = TRUE
            /\ lastOutcome' = "pending"
            /\ IF page = "teacherClerk"
               THEN \* await getToken()
                    /\ calls' = calls \cup
                         {[n |-> submits + 1, stage |-> "token", file |-> file,
                           currentUser |-> clerk.user, at |-> clerk]}
                    /\ UNCHANGED sent
               ELSE \* await uploadAssignment(file)
                    /\ calls' = calls \cup
                         {[n |-> submits + 1, stage |-> "fetch", file |-> file,
                           currentUser |-> NoUser, at |-> clerk]}
                    /\ sent' = Append(sent, [req |-> uploadAssignmentPlain(file),
                                             file |-> file, at |-> clerk])
    /\ UNCHANGED <<page, result, file, clerk>>
    /\ UNCHANGED studentVars

\* the teacher clicks the submit button, which the browser lets through only
\* when it is not disabled
ClickUpload ==
    /\ ~ButtonDisabled
    /\ onSubmit

\* a submit event that reaches the form without the button (requestSubmit,
\* dispatchEvent): the handler runs whatever the button's state
DispatchSubmit == onSubmit

\* <input type="file" onChange={(e) => setFile(e.target.files?.[0] || null)} />
FileChange(f) ==
    /\ IsTeacher
    /\ f # file
    /\ file' = f
    /\ UNCHANGED <<page, result, err, loading, clerk, calls, sent, submits, lastOutcome>>
    /\ UNCHANGED studentVars

\* the Clerk hooks return something new: loading finishes, the user signs in or out
ClerkChange(c) ==
    /\ page = "teacherClerk"
    /\ c # clerk
    /\ clerk.isAuthLoaded => c.isAuthLoaded
    /\ clerk.isUserLoaded => c.isUserLoaded
    /\ clerk' = c
    /\ UNCHANGED <<page, result, err, file, loading, calls, sent, submits, lastOutcome>>
    /\ UNCHANGED studentVars

\* getToken() resolves with t: the null check, then uploadAssignment up to its fetch
GetTokenResolves(c, t) ==
    /\ c \in calls /\ c.stage = "token"
    /\ IF TokenMissing(t)
       THEN CatchUpload(c, MkError(MsgNoToken), "noToken")
       ELSE /\ sent' = Append(sent,
                  [req |-> uploadAssignment([file |-> c.file, owner_id |-> c.currentUser],
                                            [clerkToken |-> t]),
                   file |-> c.file, at |-> c.at])
            /\ calls' = (calls \ {c}) \cup {[c EXCEPT !.stage = "fetch"]}
            /\ UNCHANGED <<result, err, loading, lastOutcome>>
    /\ UNCHANGED <<page, file, clerk, submits>>
    /\ UNCHANGED studentVars

\* getToken() rejects
GetTokenRejects(c) ==
    /\ c \in calls /\ c.stage = "token"
    /\ CatchUpload(c, TokenError, "tokenRejected")
    /\ UNCHANGED <<page, file, clerk, submits>>
    /\ UNCHANGED studentVars

\* the upload is answered with a success status and a JSON body: setResult(data)
UploadResolves(c, body) ==
    /\ c \in calls /\ c.stage = "fetch"
    /\ result' = <<body>>
    /\ loading' = FALSE
    /\ calls' = calls \ {c}
    /\ lastOutcome' = "ok"
    /\ UNCHANGED <<page, err, file, clerk, sent, submits>>
    /\ UNCHANGED studentVars

\* the upload is answered with a 4xx/5xx status
UploadHttpError(c) ==
    /\ c \in calls /\ c.stage = "fetch"
    /\ CatchUpload(c, UploadNotOk, "http")
    /\ UNCHANGED <<page, file, clerk, submits>>
    /\ UNCHANGED studentVars

\* the upload gets no response: fetch rejects
UploadNetworkError(c) ==
    /\ c \in calls /\ c.stage = "fetch"
    /\ CatchUpload(c, NetworkError, "network")
    /\ UNCHANGED <<page, file, clerk, submits>>
    /\ UNCHANGED studentVars

\* ============================================================= student page
AssignmentIds == {"a1", "a2"}
QIds == {"q1", "q2"}

\* type Question = MCQ | Open
Questions ==
    <<[id |-> "q1", type |-> "mcq", stem |-> "pick one", options |-> <<"A", "B">>],
      [id |-> "q2", type |-> "open", prompt |-> "explain"]>>

\* what the student can enter for a question: an option of a radio group, or
\* the text of the textarea after a keystroke
Entries(q) == IF q.type = "mcq" THEN {q.options[i] : i \in DOMAIN q.options}
              ELSE {"x", "xy"}

\* GET /assignments/{id} bodies: {title, questions} or {error}
AssignmentBody(id) == [title |-> id, questions |-> Questions]
ErrorBody == [error |-> TRUE]
FetchBodies(id) == {AssignmentBody(id), ErrorBody}

\* JSON bodies the backend answers a submission with
SubmitBodies == {[status |-> "received"]}

\* (data as any).error
HasError(data) == "error" \in DOMAIN data /\ data.error = TRUE

\* useState<Record<string, any>>({})
EmptyResponses == [q \in QIds |-> Absent]

\* neither if (err) return ... nor if (!assignment) return ... is taken: the
\* questions, the Submit button and the result are rendered
QuestionsRendered == page = "student" /\ ~ErrShown /\ assignment # <<>>

\* a catch that shows what getAssignment threw
LoadFailedRaw(e) == e.message

\* catch { setErr("Failed to load assignment") }
LoadFailedMessage(e) == "Failed to load assignment"

\* a catch that shows what submitResponses threw
SubmitFailedRaw(e) == e.message

\* catch { setErr("Submit failed") }
SubmitFailedMessage(e) == "Submit failed"

\* setResponses({ ...responses, [qid]: val }): the update computed from the
\* responses of the render, not from the state it is applied to
UpdaterFromClosure(r, closure, qid, val) == [closure EXCEPT ![qid] = val]

\* the updater onChange hands to setResponses: (r) => ({ ...r, [qid]: val });
\* closure is the responses of the render the handler was created in
Updater(r, closure, qid, val) == [r EXCEPT ![qid] = val]

\* React runs the queued updaters in order, each on the result of the one before
RECURSIVE ApplyUpdaters(_, _, _)
ApplyUpdaters(queue, r, closure) ==
    IF queue = <<>> THEN r
    ELSE ApplyUpdaters(Tail(queue),
                       Updater(r, closure, Head(queue).qid, Head(queue).val),
                       closure)

\* useEffect(() => { ... getAssignment(assignmentId) ... }, [assignmentId]):
\* the call the effect starts for id, given the calls outstanding
StartFetch(id) ==
    /\ fetches' = fetches \cup {[n |-> events + 2, id |-> id]}

\* the router hands the mounted page another :assignmentId; the effect runs again
RouteChange(id) ==
    /\ page = "student"
    /\ id # assignmentId
    /\ events < MaxEvents
    /\ assignmentId' = id
    /\ StartFetch(id)
    /\ events' = events + 1
    /\ UNCHANGED <<page, result, err, assignment, responses, pendingUpd, posts,
                   postLog, typed, atClick>>
    /\ notFoundId' = Absent
    /\ UNCHANGED teacherVars

\* getAssignment resolves with a JSON body
FetchResolves(c, data) ==
    /\ c \in fetches
    /\ fetches' = fetches \ {c}
    /\ IF HasError(data)
       THEN err' = "Assignment not found" /\ UNCHANGED assignment
       ELSE assignment' = <<data>> /\ UNCHANGED err
    /\ UNCHANGED <<page, result, assignmentId, responses, pendingUpd, posts,
                   postLog, typed, atClick, events>>
    /\ notFoundId' = IF HasError(data) THEN c.id ELSE notFoundId
    /\ UNCHANGED teacherVars

\* getAssignment rejects with e: a non-success status or no response at all
FetchRejects(c, e) ==
    /\ c \in fetches
    /\ fetches' = fetches \ {c}
    /\ err' = LoadFailedMessage(e)
    /\ UNCHANGED <<page, result, assignmentId, assignment, responses, pendingUpd,
                   posts, postLog, typed, atClick, notFoundId,
                   events>>
    /\ UNCHANGED teacherVars

\* onChange(qid, val) from a radio button or the textarea of a rendered question
onChange(qid, val) ==
    /\ QuestionsRendered
    /\ events < MaxEvents
    /\ \E i \in DOMAIN assignment[1].questions :
          /\ assignment[1].questions[i].id = qid
          /\ val \in Entries(assignment[1].questions[i])
    /\ pendingUpd' = Append(pendingUpd, [qid |-> qid, val |-> val])
    /\ typed' = [typed EXCEPT ![qid] = val]
    /\ events' = events + 1
    /\ UNCHANGED <<page, result, err, assignmentId, assignment, responses, fetches,
                   posts, postLog, atClick, notFoundId>>
    /\ UNCHANGED teacherVars

\* React renders: the queued updaters run and responses takes the result
Render ==
    /\ page = "student"
    /\ pendingUpd # <<>>
    /\ responses' = ApplyUpdaters(pendingUpd, responses, responses)
    /\ pendingUpd' = <<>>
    /\ UNCHANGED <<page, result, err, assignmentId, assignment, fetches, posts,
                   postLog, typed, atClick, notFoundId,
                   events>>
    /\ UNCHANGED teacherVars

\* submitResponses(payload): the request it hands to fetch
submitResponses(payload) ==
    [method |-> "POST", path |-> "/submissions/", body |-> payload]

\* onSubmit of the student page, up to its await.  A click is dispatched on
\* what is rendered: React has flushed the updates of earlier events by then.
onSubmitStudent ==
    /\ QuestionsRendered
    /\ pendingUpd = <<>>
    /\ events < MaxEvents
    /\ assignmentId # Absent
    /\ postLog' = Append(postLog,
          submitResponses([assignmentId |-> assignmentId,
                           studentId |-> "demo-student",
                           responses |-> responses]))
    /\ posts' = posts \cup {[n |-> events + 1]}
    /\ events' = events + 1
    /\ UNCHANGED <<page, result, err, assignmentId, assignment, responses,
                   pendingUpd, fetches, typed, notFoundId>>
    /\ atClick' = Append(atClick, [assignmentId |-> assignmentId, responses |-> typed])
    /\ UNCHANGED teacherVars

\* submitResponses resolves: setResult(res)
SubmitResolves(c, res) ==
    /\ c \in posts
    /\ posts' = posts \ {c}
    /\ result' = <<res>>
    /\ UNCHANGED <<page, err, assignmentId, assignment, responses, pendingUpd,
                   fetches, postLog, typed, atClick, notFoundId,
                   events>>
    /\ UNCHANGED teacherVars

\* submitResponses rejects with e: a non-success status or no response at all
SubmitRejects(c, e) ==
    /\ c \in posts
    /\ posts' = posts \ {c}
    /\ err' = SubmitFailedMessage(e)
    /\ UNCHANGED <<page, result, assignmentId, assignment, responses, pendingUpd,
                   fetches, postLog, typed, atClick, notFoundId,
                   events>>
    /\ UNCHANGED teacherVars

\* ============================================================ specification
Pages == {"teacherPlain", "teacherClerk", "student"}

\* a page instance right after it mounted; the student page's effect has run
Init ==
    /\ page \in Pages
    /\ file = NoFile
    /\ result = <<>>
    /\ loading = FALSE
    /\ err = Null
    /\ clerk = ClerkUnloaded
    /\ calls = {}
    /\ sent = <<>>
    /\ submits = 0
    /\ lastOutcome = "none"
    /\ assignment = <<>>
    /\ responses = EmptyResponses
    /\ pendingUpd = <<>>
    /\ posts = {}
    /\ postLog = <<>>
    /\ typed = EmptyResponses
    /\ atClick = <<>>
    /\ notFoundId = Absent
    /\ IF page = "student"
       THEN /\ assignmentId \in AssignmentIds
            /\ fetches = {[n |-> 1, id |-> assignmentId]}
            /\ events = 0
       ELSE /\ assignmentId = Absent
            /\ fetches = {}
            /\ events = 0

TokenStep ==
    \/ \E c \in calls, t \in Tokens \cup {NoToken} : GetTokenResolves(c, t)
    \/ \E c \in calls : GetTokenRejects(c)

UploadStep ==
    \/ \E c \in calls, body \in UploadBodies : UploadResolves(c, body)
    \/ \E c \in calls : UploadHttpError(c)
    \/ \E c \in calls : UploadNetworkError(c)

Next ==
    \/ ClickUpload
    \/ \E f \in Files \cup {NoFile} : FileChange(f)
    \/ \E c \in ClerkStates : ClerkChange(c)
    \/ TokenStep
    \/ UploadStep
    \/ \E id \in AssignmentIds : RouteChange(id)
    \/ \E c \in fetches : \E data \in FetchBodies(c.id) : FetchResolves(c, data)
    \/ \E c \in fetches, e \in {FetchNotOk, NetworkError} : FetchRejects(c, e)
    \/ \E q \in QIds, v \in {"A", "B", "x", "xy"} : onChange(q, v)
    \/ Render
    \/ onSubmitStudent
    \/ \E c \in posts, res \in SubmitBodies : SubmitResolves(c, res)
    \/ \E c \in posts, e \in {SubmitNotOk, NetworkError} : SubmitRejects(c, e)

\* the pages driven through what they render
Spec == Init /\ [][Next]_vars

\* the same as Spec, and submit events that do not come from the button
NextForm == Next \/ DispatchSubmit
FormSpec == Init /\ [][NextForm]_vars

\* ================================================================== claims

\* the state of the upload flow, read off what the page renders: the button
\* says "Uploading..." while loading, then the error paragraph, then the panel
Phase ==
    IF loading THEN "uploading"
    ELSE IF ErrShown THEN "error"
    ELSE IF ResultShown THEN "success"
    ELSE "idle"

\* the state of the student page, read off its three returns
StudentState ==
    IF ErrShown
    THEN (IF err = "Assignment not found" THEN "not-found"
          ELSE IF err = "Failed to load assignment" THEN "load-error"
          ELSE IF err = "Submit failed" THEN "submit-error"
          ELSE "other")
    ELSE IF assignment = <<>> THEN "loading" ELSE "loaded"

\* C1: whenever the most recent upload attempt of a teacher page ended with a
\* non-success HTTP status, an error message is shown and no result panel is.
C1_FailedUploadShowsNoResult ==
    (IsTeacher /\ lastOutcome = "http") => (ErrShown /\ ~ResultShown)

\* C2 as stated: the only transitions of the upload flow are idle->uploading,
\* uploading->success and uploading->error, and every submit with a file
\* selected enters uploading.
C2_OnlyListedTransitions ==
    [][IsTeacher =>
         /\ Phase' # Phase =>
              <<Phase, Phase'>> \in {<<"idle", "uploading">>,
                                     <<"uploading", "success">>,
                                     <<"uploading", "error">>}
         /\ (submits' # submits /\ file # NoFile) => loading'
      ]_vars

\* the message each way of failing an upload attempt surfaces
RejectionMessage(outcome) ==
    CASE outcome = "http" -> "Upload failed"
      [] outcome = "network" -> NetworkError.message
      [] outcome = "noToken" -> MsgNoToken
      [] outcome = "tokenRejected" -> TokenError.message
      [] OTHER -> Null

\* C2 amended: uploading is entered from idle, success or error, by a submit
\* through the Upload button with a file selected, and by every such submit;
\* it is left to success when the upload resolves and to error, showing the
\* rejection's message, when it rejects; error is entered only from
\* uploading; and the step that settles the upload ends loading.
C2_UploadFlowTransitions ==
    /\ [](IsTeacher => (loading => calls # {}))
    /\ [][IsTeacher =>
            /\ Phase' # Phase =>
                 <<Phase, Phase'>> \in {<<"idle", "uploading">>,
                                        <<"success", "uploading">>,
                                        <<"error", "uploading">>,
                                        <<"uploading", "success">>,
                                        <<"uploading", "error">>}
            /\ (Phase # "uploading" /\ Phase' = "uploading") =>
                 (submits' = submits + 1 /\ file # NoFile)
            /\ (submits' # submits /\ file # NoFile) => loading'
            /\ (Phase = "uploading" /\ Phase' = "success") =>
                 (lastOutcome' = "ok" /\ ResultShown')
            /\ (Phase = "uploading" /\ Phase' = "error") =>
                 (err' = RejectionMessage(lastOutcome') /\ err' # Null)
            /\ Cardinality(calls') < Cardinality(calls) => ~loading'
         ]_vars

\* C2 witness: an upload was rejected after an earlier one had succeeded
C2_Witness ==
    /\ IsTeacher /\ Phase = "error" /\ ResultShown /\ lastOutcome = "network"

\* C3: at most one uploadAssignment call and at most one getAssignment call
\* is unsettled at any time.
C3_AtMostOneOutstanding ==
    /\ Cardinality({c \in calls : c.stage = "fetch"}) <= 1
    /\ Cardinality(fetches) <= 1

\* C4: a student page issues at most one POST to /submissions/, and its body
\* carries the route's assignmentId and the answers as entered up to the click.
C4_SubmittedOnce ==
    /\ Len(postLog) <= 1
    /\ \A i \in DOMAIN postLog :
          /\ postLog[i].body.assignmentId = atClick[i].assignmentId
          /\ postLog[i].body.responses = atClick[i].responses

\* C5 as stated: the student page is always in one of loading, loaded,
\* not-found, load-error.
C5_FourStates ==
    page = "student" =>
        StudentState \in {"loading", "loaded", "not-found", "load-error"}

\* C5 amended: the student page is always in one of loading, loaded,
\* not-found, load-error, submit-error; it starts in loading and leaves
\* loading only in the step that settles an assignment fetch: to loaded on a
\* body without an error field, to not-found on a body with one, to
\* load-error on a rejection.
C5_FiveStates ==
    /\ page = "student" => StudentState = "loading"
    /\ [](page = "student" =>
            StudentState \in {"loading", "loaded", "not-found", "load-error",
                              "submit-error"})
    /\ [][(page = "student" /\ StudentState = "loading" /\ StudentState' # "loading") =>
            \E c \in fetches :
               \/ \E data \in FetchBodies(c.id) :
                     /\ FetchResolves(c, data)
                     /\ StudentState' = IF "error" \in DOMAIN data
                                        THEN "not-found" ELSE "loaded"
               \/ \E e \in {FetchNotOk, NetworkError} :
                     /\ FetchRejects(c, e)
                     /\ StudentState' = "load-error"
         ]_vars

\* C5 witness: a failed submission has replaced the questions by its message
C5_Witness == page = "student" /\ StudentState = "submit-error" /\ assignment # <<>>

\* C6 as stated: every error a page displays after a failure of
\* uploadAssignment, getAssignment or submitResponses is "Upload failed",
\* "Fetch assignment failed", "Submit failed" or an authentication-specific
\* message.  ("Assignment not found" answers a fetch that succeeded, and is
\* left out of the claim.)
C6_GenericMessages ==
    err \in {Null, "Assignment not found"} \cup
            {"Upload failed", "Fetch assignment failed", "Submit failed",
             MsgAuthLoading, MsgSignedOut, MsgNoToken, TokenError.message}

\* C6 amended: the teacher page displays "Upload failed", an
\* authentication-specific message, or the message of whatever other error
\* the upload rejected with (here: no response arrived); the student page
\* displays "Failed to load assignment" for a failed fetch and "Submit
\* failed" for a failed submission, besides "Assignment not found".
C6_DisplayedMessages ==
    /\ IsTeacher =>
         err \in {Null, "Upload failed", MsgAuthLoading, MsgSignedOut, MsgNoToken,
                  TokenError.message, NetworkError.message}
    /\ page = "student" =>
         err \in {Null, "Assignment not found", "Failed to load assignment",
                  "Submit failed"}

\* C6 witness: the teacher page shows the message of a network error
C6_Witness == IsTeacher /\ err = NetworkError.message /\ lastOutcome = "network"

\* C7: with no file selected the submit button is disabled, and a form submit
\* with no file selected issues no upload call and leaves loading and result
\* as they were.
C7_NoFileNoUpload ==
    /\ []((IsTeacher /\ file = NoFile) => ButtonDisabled)
    /\ [][(IsTeacher /\ file = NoFile /\ submits' # submits) =>
            /\ sent' = sent
            /\ calls' = calls
            /\ loading' = loading
            /\ result' = result
         ]_vars

\* C7 witness: the handler has run with no file selected
C7_Witness == IsTeacher /\ file = NoFile /\ submits > 0 /\ lastOutcome = "nofile"

\* C8: once the fetch for the page's assignmentId was answered with a truthy
\* error field, and for as long as the page keeps that assignmentId, the page
\* shows "Assignment not found", the assignment state is null and no question
\* or Submit button is rendered.
C8_NotFoundStays ==
    (page = "student" /\ notFoundId = assignmentId) =>
        /\ err = "Assignment not found"
        /\ assignment = <<>>
        /\ ~QuestionsRendered

\* C9: the queued updates, run in order on the rendered response map, give
\* for every question the last value entered for it and leave the questions
\* not touched as they were.
C9_LastValuePerQuestion ==
    page = "student" => ApplyUpdaters(pendingUpd, responses, responses) = typed

\* C9 witness: a selection and a keystroke for two questions, both queued
\* before the next render
C9_Witness ==
    /\ page = "student"
    /\ Len(pendingUpd) >= 2
    /\ pendingUpd[1].qid = "q1" /\ pendingUpd[2].qid = "q2"
    /\ responses = EmptyResponses

====
